---- MODULE Spec2Model ----
(***************************************************************************)
(* The calculation engine of the Ritual Powders growth dashboard           *)
(* (src/src/Dashboard.jsx): calcTierEconomics and projectScenario.         *)
(*                                                                         *)
(* Numbers.  A JavaScript number is modelled as an exact rational n/d in   *)
(* lowest terms ([n |-> n, d |-> d], d > 0), and a non-finite value (the   *)
(* result of a division by zero) as NaN == [n |-> 0, d |-> 0].  The inputs *)
(* are drawn from values whose arithmetic stays inside TLC's integers.     *)
(***************************************************************************)
EXTENDS Integers, Sequences, FiniteSets, TLC

\* ------------------------------------------------------------------ numbers

Abs(x) == IF x < 0 THEN -x ELSE x

\* F(v), with v evaluated once
Bind(v, F(_)) == CHOOSE r \in { F(x) : x \in {v} } : TRUE

RECURSIVE GCD(_, _)
GCD(a, b) == IF b = 0 THEN a ELSE GCD(b, a % b)

NaN == [n |-> 0, d |-> 0]
IsNum(a) == a.d # 0

\* n/d in lowest terms, d > 0
Norm(n, d) == Bind(GCD(Abs(n), d), LAMBDA g : [n |-> n \div g, d |-> d \div g])

Q(n) == [n |-> n, d |-> 1]

RNeg(a) == [n |-> 0 - a.n, d |-> a.d]

AddNum(a, b) ==
  IF a.d = 0 \/ b.d = 0 THEN NaN
  ELSE IF a.d = 1 /\ b.d = 1 THEN [n |-> a.n + b.n, d |-> 1]
  ELSE Bind(GCD(a.d, b.d),
            LAMBDA g : Norm(a.n * (b.d \div g) + b.n * (a.d \div g), (a.d \div g) * b.d))

RAdd(x, y) == Bind(x, LAMBDA a : Bind(y, LAMBDA b : AddNum(a, b)))

RSub(a, b) == RAdd(a, RNeg(b))

MulNum(a, b) ==
  IF a.d = 0 \/ b.d = 0 THEN NaN
  ELSE IF a.d = 1 /\ b.d = 1 THEN [n |-> a.n * b.n, d |-> 1]
  ELSE Bind(GCD(Abs(a.n), b.d), LAMBDA g1 :
       Bind(GCD(Abs(b.n), a.d), LAMBDA g2 :
            [n |-> (a.n \div g1) * (b.n \div g2), d |-> (a.d \div g2) * (b.d \div g1)]))

RMul(x, y) == Bind(x, LAMBDA a : Bind(y, LAMBDA b : MulNum(a, b)))

\* a / b; a zero divisor gives a non-finite value
DivNum(a, b) ==
  IF a.d = 0 \/ b.d = 0 \/ b.n = 0 THEN NaN
  ELSE MulNum(a, IF b.n > 0 THEN [n |-> b.d, d |-> b.n] ELSE [n |-> 0 - b.d, d |-> 0 - b.n])

RDiv(x, y) == Bind(x, LAMBDA a : Bind(y, LAMBDA b : DivNum(a, b)))

GtNum(a, b) == a.d # 0 /\ b.d # 0 /\ a.n * b.d > b.n * a.d
RGt(x, y) == Bind(x, LAMBDA a : Bind(y, LAMBDA b : GtNum(a, b)))

\* Math.round: the nearest integer, halves towards +infinity
RoundNum(a) ==
  IF a.d = 0 THEN NaN
  ELSE Bind(a.n % a.d, LAMBDA r : Q(IF r >= a.d - r THEN (a.n \div a.d) + 1 ELSE a.n \div a.d))

MathRound(x) == Bind(x, LAMBDA a : RoundNum(a))

\* Math.round(x * 100) / 100
Round2(a) == RDiv(MathRound(RMul(a, Q(100))), Q(100))

RECURSIVE SumNums(_)
SumNums(s) == IF s = <<>> THEN Q(0) ELSE RAdd(SumNums(SubSeq(s, 1, Len(s) - 1)), s[Len(s)])

\* the sum of a sequence of numbers, added from left to right
SumSeq(s) == Bind(s, LAMBDA v : SumNums(v))

\* ------------------------------------------------------------- default data

Dec(n, d) == Norm(n, d)

DEFAULT_BULK_PRODUCTS == <<
  [id |-> "ev1", name |-> "Everyday Cafe Bag 1lb", servings |-> Q(180), wholesale |-> Q(80),  cogs |-> Dec(1293, 100)],
  [id |-> "ev5", name |-> "Everyday Cafe Bag 5lb", servings |-> Q(900), wholesale |-> Q(300), cogs |-> Q(60)],
  [id |-> "dk5", name |-> "Dusk Cafe Bag 5lb",     servings |-> Q(107), wholesale |-> Q(108), cogs |-> Q(53)],
  [id |-> "dk10", name |-> "Dusk Cafe Bag 10lb",   servings |-> Q(214), wholesale |-> Q(195), cogs |-> Q(100)] >>

DEFAULT_RETAIL_PRODUCTS == <<
  [id |-> "evp", name |-> "Everyday Pouch", retailPrice |-> Q(24), wholesalePrice |-> Q(12), cogs |-> Q(4)],
  [id |-> "dkp", name |-> "Dusk Pouch",     retailPrice |-> Q(24), wholesalePrice |-> Q(12), cogs |-> Q(8)] >>

SmallTier ==
  [id |-> "small", label |-> "Small Cafe", bulkProductIds |-> <<"ev1">>, drinksPerDay |-> Q(10),
   tspPerDrink |-> Q(1), daysPerMonth |-> Q(30), retailProductIds |-> <<"evp">>, retailUnitsPerMonth |-> Q(10)]
MediumTier ==
  [id |-> "medium", label |-> "Medium Cafe", bulkProductIds |-> <<"ev5">>, drinksPerDay |-> Q(40),
   tspPerDrink |-> Q(1), daysPerMonth |-> Q(30), retailProductIds |-> <<"evp">>, retailUnitsPerMonth |-> Q(15)]
LargeTier ==
  [id |-> "large", label |-> "Large Cafe", bulkProductIds |-> <<"ev5", "dk5">>, drinksPerDay |-> Q(60),
   tspPerDrink |-> Q(1), daysPerMonth |-> Q(30), retailProductIds |-> <<"evp", "dkp">>, retailUnitsPerMonth |-> Q(25)]

DEFAULT_TIERS == << SmallTier, MediumTier, LargeTier >>

\* line 43, with the palette entries scenarioA..scenarioE of lines 34-38
SCENARIO_COLORS == << "#f5b5c2", "#fdd160", "#1d1e1c", "#c4a05a", "#9a9a93" >>

\* the field values of a scenario, as the object literals of lines 67-69 and 403-406
ScenarioRecord(name_, sp, np, small, medium, large, ch, at, color_) ==
  [name |-> name_, startingPartners |-> Q(sp), newPartnersPerMonth |-> Q(np),
   pctSmall |-> Q(small), pctMedium |-> Q(medium), pctLarge |-> Q(large),
   monthlyChurnPct |-> Q(ch), retailAttachPct |-> Q(at), color |-> color_]

DEFAULT_SCENARIOS == <<
  ScenarioRecord("Base Case",    1, 2, 50, 35, 15, 2, 50, SCENARIO_COLORS[1]),
  ScenarioRecord("Aggressive",   1, 4, 35, 40, 25, 3, 75, SCENARIO_COLORS[2]),
  ScenarioRecord("Conservative", 1, 1, 60, 30, 10, 1, 30, SCENARIO_COLORS[3]) >>

\* ------------------------------------------------------- calculation engine

\* faulty variants of lines 75 and 77: the cost is added; the margin is taken on
\* the consumer price
calcBulkMarginPlusCogs(p) == RAdd(p.wholesale, p.cogs)
calcRetailMarginOnRetailPrice(p) == RSub(p.retailPrice, p.cogs)

calcBulkMargin(p) == RSub(p.wholesale, p.cogs)

\* faulty variant of line 76: the quotient is taken whatever the wholesale price
calcBulkMarginPctUnguarded(p) == RDiv(RSub(p.wholesale, p.cogs), p.wholesale)

\* line 76
calcBulkMarginPct(p) ==
  IF RGt(p.wholesale, Q(0)) THEN RDiv(RSub(p.wholesale, p.cogs), p.wholesale) ELSE Q(0)
calcRetailMargin(p) == RSub(p.wholesalePrice, p.cogs)

Includes(arr, x) == \E i \in 1..Len(arr) : arr[i] = x

\* (tier.bulkProductIds || []), (tier.retailProductIds || [])
BulkIds(tier) == IF "bulkProductIds" \in DOMAIN tier THEN tier.bulkProductIds ELSE <<>>
RetailIds(tier) == IF "retailProductIds" \in DOMAIN tier THEN tier.retailProductIds ELSE <<>>

\* faulty variant of line 80: a selection that resolves to nothing means every product
SelectedBulkOrAll(tier, bulkProducts) ==
  IF SelectSeq(bulkProducts, LAMBDA p : Includes(BulkIds(tier), p.id)) = << >>
  THEN bulkProducts
  ELSE SelectSeq(bulkProducts, LAMBDA p : Includes(BulkIds(tier), p.id))

SelectedBulk(tier, bulkProducts) == SelectSeq(bulkProducts, LAMBDA p : Includes(BulkIds(tier), p.id))
SelectedRetail(tier, retailProducts) == SelectSeq(retailProducts, LAMBDA p : Includes(RetailIds(tier), p.id))

TotalServingsPerMonth(tier) == RMul(RMul(tier.drinksPerDay, tier.tspPerDrink), tier.daysPerMonth)

\* faulty variant of line 84: the share is taken over the ids listed in the tier
ServingsPerListedProduct(tier, selectedBulk) ==
  IF Len(selectedBulk) > 0 THEN RDiv(TotalServingsPerMonth(tier), Q(Len(BulkIds(tier)))) ELSE Q(0)

ServingsPerProduct(tier, selectedBulk) ==
  IF Len(selectedBulk) > 0 THEN RDiv(TotalServingsPerMonth(tier), Q(Len(selectedBulk))) ELSE Q(0)

\* faulty variant of line 88: the quotient is taken whatever the servings per bag are
BagsUnguarded(bulk, servingsPerProduct) == RDiv(servingsPerProduct, bulk.servings)

\* faulty variant of line 88: whole bags only
WholeBags(bulk, servingsPerProduct) ==
  IF RGt(bulk.servings, Q(0)) THEN MathRound(RDiv(servingsPerProduct, bulk.servings)) ELSE Q(0)

Bags(bulk, servingsPerProduct) ==
  IF RGt(bulk.servings, Q(0)) THEN RDiv(servingsPerProduct, bulk.servings) ELSE Q(0)

RetailUnitsPerProduct(tier, selectedRetail) ==
  IF Len(selectedRetail) > 0 THEN RDiv(tier.retailUnitsPerMonth, Q(Len(selectedRetail))) ELSE Q(0)

\* lines 86-94: the sums and the breakdown over the selected bulk products
BulkLines(selectedBulk, servingsPerProduct) ==
  [i \in 1..Len(selectedBulk) |->
     Bind(Bags(selectedBulk[i], servingsPerProduct), LAMBDA bags :
          [bags |-> bags,
           rev |-> RMul(bags, selectedBulk[i].wholesale),
           profit |-> RMul(bags, calcBulkMargin(selectedBulk[i]))])]

\* lines 96-101
RetailLines(selectedRetail, retailUnitsPerProduct) ==
  [i \in 1..Len(selectedRetail) |->
     [rev |-> RMul(retailUnitsPerProduct, selectedRetail[i].wholesalePrice),
      profit |-> RMul(retailUnitsPerProduct, calcRetailMargin(selectedRetail[i]))]]

Column(lines, field) == [i \in 1..Len(lines) |-> lines[i][field]]

\* faulty variant of lines 103-110: the retail figures are rounded too
TierEconomicsRecordAllRounded(tier, selectedBulk, bulk, bulkRev_, bulkProfit_, retailRev_, retailProfit_) ==
  [servingsPerMonth |-> TotalServingsPerMonth(tier),
   bulkBreakdown |-> [i \in 1..Len(selectedBulk) |->
                        [name |-> selectedBulk[i].name, bags |-> Round2(bulk[i].bags), rev |-> Round2(bulk[i].rev)]],
   bulkRev |-> Round2(bulkRev_), bulkProfit |-> Round2(bulkProfit_),
   retailRev |-> Round2(retailRev_), retailProfit |-> Round2(retailProfit_),
   totalRev |-> Round2(RAdd(bulkRev_, retailRev_)),
   totalProfit |-> Round2(RAdd(bulkProfit_, retailProfit_))]

\* lines 103-110: the record returned
TierEconomicsRecord(tier, selectedBulk, bulk, bulkRev_, bulkProfit_, retailRev_, retailProfit_) ==
  [servingsPerMonth |-> TotalServingsPerMonth(tier),
   bulkBreakdown |-> [i \in 1..Len(selectedBulk) |->
                        [name |-> selectedBulk[i].name, bags |-> Round2(bulk[i].bags), rev |-> Round2(bulk[i].rev)]],
   bulkRev |-> Round2(bulkRev_), bulkProfit |-> Round2(bulkProfit_),
   retailRev |-> retailRev_, retailProfit |-> retailProfit_,
   totalRev |-> Round2(RAdd(bulkRev_, retailRev_)),
   totalProfit |-> Round2(RAdd(bulkProfit_, retailProfit_))]

calcTierEconomics(tier, bulkProducts, retailProducts) ==
  Bind(SelectedBulk(tier, bulkProducts), LAMBDA selectedBulk :
  Bind(SelectedRetail(tier, retailProducts), LAMBDA selectedRetail :
  Bind(BulkLines(selectedBulk, ServingsPerProduct(tier, selectedBulk)), LAMBDA bulk :
  Bind(RetailLines(selectedRetail, RetailUnitsPerProduct(tier, selectedRetail)), LAMBDA retail :
  Bind(SumSeq(Column(bulk, "rev")), LAMBDA bulkRev_ :
  Bind(SumSeq(Column(bulk, "profit")), LAMBDA bulkProfit_ :
  Bind(SumSeq(Column(retail, "rev")), LAMBDA retailRev_ :
  Bind(SumSeq(Column(retail, "profit")), LAMBDA retailProfit_ :
    TierEconomicsRecord(tier, selectedBulk, bulk, bulkRev_, bulkProfit_, retailRev_, retailProfit_)))))))))

\* scenario fractions (lines 118-122)
sF(scenario) == RDiv(scenario.pctSmall, Q(100))
mF(scenario) == RDiv(scenario.pctMedium, Q(100))
lF(scenario) == RDiv(scenario.pctLarge, Q(100))
churn(scenario) == RDiv(scenario.monthlyChurnPct, Q(100))
retailAttach(scenario) == RDiv(scenario.retailAttachPct, Q(100))

\* tiers[i]?.id when the sequence has no such position
Undefined == "undefined"

\* tierEcon after tiers.forEach(t => tierEcon[t.id] = ...): a later tier with the
\* same id overwrites an earlier one
TierEcon(tiers_, bulkProducts_, retailProducts_) ==
  LET ids == {tiers_[i].id : i \in 1..Len(tiers_)}
      last(id) == CHOOSE i \in 1..Len(tiers_) :
                    /\ tiers_[i].id = id
                    /\ \A j \in (i + 1)..Len(tiers_) : tiers_[j].id # id
  IN  [id \in ids |-> calcTierEconomics(tiers_[last(id)], bulkProducts_, retailProducts_)]

\* faulty variant: a position past the end takes the last tier
TierIdAtOrLast(tiers_, i) ==
  IF Len(tiers_) >= i THEN tiers_[i].id
  ELSE IF Len(tiers_) > 0 THEN tiers_[Len(tiers_)].id ELSE Undefined

TierIdAt(tiers_, i) == IF Len(tiers_) >= i THEN tiers_[i].id ELSE Undefined

TierMap(tiers_) ==
  [small |-> TierIdAt(tiers_, 1), medium |-> TierIdAt(tiers_, 2), large |-> TierIdAt(tiers_, 3)]

Sizes == <<"small", "medium", "large">>

\* if (tid && tierEcon[tid]): undefined and the empty string are falsy
Resolves(tid, tierEcon_) == tid # Undefined /\ tid # "" /\ tid \in DOMAIN tierEcon_

\* faulty variants of line 129: the month's new partners are churned too; no partner is added
NextActiveChurnsNew(totalActive_, scenario_) ==
  RMul(RAdd(totalActive_, scenario_.newPartnersPerMonth), RSub(Q(1), churn(scenario_)))

NextActiveNoGrowth(totalActive_, scenario_) == RMul(totalActive_, RSub(Q(1), churn(scenario_)))

\* faulty variant of line 129: the churn is added to the carried count
NextActiveGrowing(totalActive_, scenario_) ==
  RAdd(RMul(totalActive_, RAdd(Q(1), churn(scenario_))), scenario_.newPartnersPerMonth)

\* line 129
NextActive(totalActive_, scenario_) ==
  RAdd(RMul(totalActive_, RSub(Q(1), churn(scenario_))), scenario_.newPartnersPerMonth)

\* faulty variant: the recurrence runs in month 1 as well
CarriedActiveFromMonthOne(k, totalActive_, scenario_) == NextActive(totalActive_, scenario_)

\* line 129 with its test: month 1 keeps the starting count
CarriedActive(k, totalActive_, scenario_) ==
  IF k > 1 THEN NextActive(totalActive_, scenario_) ELSE totalActive_

\* faulty variants of line 130: the split is re-normalised to the sum of the percentages;
\* the retail attach rate is applied to the cohort counts
CountsNormalised(totalActive_, scenario_) ==
  Bind(RAdd(RAdd(scenario_.pctSmall, scenario_.pctMedium), scenario_.pctLarge), LAMBDA total :
    [small |-> RMul(totalActive_, RDiv(scenario_.pctSmall, total)),
     medium |-> RMul(totalActive_, RDiv(scenario_.pctMedium, total)),
     large |-> RMul(totalActive_, RDiv(scenario_.pctLarge, total))])

CountsAttached(totalActive_, scenario_) ==
  [small |-> RMul(RMul(totalActive_, sF(scenario_)), retailAttach(scenario_)),
   medium |-> RMul(RMul(totalActive_, mF(scenario_)), retailAttach(scenario_)),
   large |-> RMul(RMul(totalActive_, lF(scenario_)), retailAttach(scenario_))]

\* line 130
Counts(totalActive_, scenario_) ==
  [small |-> RMul(totalActive_, sF(scenario_)),
   medium |-> RMul(totalActive_, mF(scenario_)),
   large |-> RMul(totalActive_, lF(scenario_))]

\* one pass of the forEach of lines 133-142 for one size, by field of tierEcon
CohortBulk(size, field, counts_, tierMap_, tierEcon_) ==
  IF Resolves(tierMap_[size], tierEcon_)
  THEN RMul(counts_[size], tierEcon_[tierMap_[size]][field])
  ELSE Q(0)

\* faulty variant: the attach rate is an uplift on the full retail figure
CohortRetailUplift(size, field, counts_, tierMap_, tierEcon_, scenario_) ==
  IF Resolves(tierMap_[size], tierEcon_)
  THEN RMul(RMul(counts_[size], tierEcon_[tierMap_[size]][field]), RAdd(Q(1), retailAttach(scenario_)))
  ELSE Q(0)

CohortRetail(size, field, counts_, tierMap_, tierEcon_, scenario_) ==
  IF Resolves(tierMap_[size], tierEcon_)
  THEN RMul(RMul(counts_[size], tierEcon_[tierMap_[size]][field]), retailAttach(scenario_))
  ELSE Q(0)

MonthBulk(field, counts_, tierMap_, tierEcon_) ==
  SumSeq([i \in 1..3 |-> CohortBulk(Sizes[i], field, counts_, tierMap_, tierEcon_)])

MonthRetail(field, counts_, tierMap_, tierEcon_, scenario_) ==
  SumSeq([i \in 1..3 |-> CohortRetail(Sizes[i], field, counts_, tierMap_, tierEcon_, scenario_)])

\* faulty variant of line 158: the quotient is taken whatever totalRev is
MarginPctUnguarded(totalProfit, totalRev) ==
  RDiv(MathRound(RMul(RDiv(totalProfit, totalRev), Q(1000))), Q(10))

\* line 158
MarginPct(totalProfit, totalRev) ==
  IF RGt(totalRev, Q(0))
  THEN RDiv(MathRound(RMul(RDiv(totalProfit, totalRev), Q(1000))), Q(10))
  ELSE Q(0)

MonthLabel(k) == "M" \o ToString(k)

\* faulty variant of lines 156-157: the totals reported are the sums of the
\* rounded parts
MonthResultOfRoundedParts(k, ta, cnt, bRev, bProfit, rRev, rProfit, cumRev, cumProfit) ==
  [month |-> k, label |-> MonthLabel(k),
   totalActive |-> Round2(ta),
   small |-> Round2(cnt.small), medium |-> Round2(cnt.medium), large |-> Round2(cnt.large),
   bulkRevenue |-> MathRound(bRev), retailRevenue |-> MathRound(rRev),
   totalRevenue |-> RAdd(MathRound(bRev), MathRound(rRev)), bulkProfit |-> MathRound(bProfit),
   retailProfit |-> MathRound(rProfit), totalProfit |-> RAdd(MathRound(bProfit), MathRound(rProfit)),
   marginPct |-> MarginPct(RAdd(bProfit, rProfit), RAdd(bRev, rRev)),
   cumulativeRev |-> MathRound(cumRev), cumulativeProfit |-> MathRound(cumProfit)]

\* the record pushed at lines 149-160
MonthResult(k, ta, cnt, bRev, bProfit, rRev, rProfit, cumRev, cumProfit) ==
  [month |-> k, label |-> MonthLabel(k),
   totalActive |-> Round2(ta),
   small |-> Round2(cnt.small), medium |-> Round2(cnt.medium), large |-> Round2(cnt.large),
   bulkRevenue |-> MathRound(bRev), retailRevenue |-> MathRound(rRev),
   totalRevenue |-> MathRound(RAdd(bRev, rRev)), bulkProfit |-> MathRound(bProfit),
   retailProfit |-> MathRound(rProfit), totalProfit |-> MathRound(RAdd(bProfit, rProfit)),
   marginPct |-> MarginPct(RAdd(bProfit, rProfit), RAdd(bRev, rRev)),
   cumulativeRev |-> MathRound(cumRev), cumulativeProfit |-> MathRound(cumProfit)]

ZeroCounts == [small |-> Q(0), medium |-> Q(0), large |-> Q(0)]

\* faulty variant of lines 146-147: the sum is overwritten by the month's total
AccumulateLatest(cumulative, total) == total

\* lines 146-147
Accumulate(cumulative, total) == RAdd(cumulative, total)

\* the 12-month horizon of the loop at line 128
Horizon == 12

\* faulty variant of the loop test: m < 12
LoopStopsEarly(k) == k < Horizon

\* the loop test of line 128
LoopContinues(k) == k <= Horizon

\* The loop's state before the first iteration (lines 124-126) ...
LoopEntry(scenario_) ==
  [totalActive |-> scenario_.startingPartners, counts |-> ZeroCounts,
   bulkRev |-> Q(0), bulkProfit |-> Q(0), retailRev |-> Q(0), retailProfit |-> Q(0),
   cumulativeRev |-> Q(0), cumulativeProfit |-> Q(0), months |-> << >>]

\* the state after an iteration, from the values the iteration computed
LoopState(st, k, ta, cnt, bRev, bProfit, rRev, rProfit, cumRev, cumProfit) ==
  [totalActive |-> ta, counts |-> cnt,
   bulkRev |-> bRev, bulkProfit |-> bProfit, retailRev |-> rRev, retailProfit |-> rProfit,
   cumulativeRev |-> cumRev, cumulativeProfit |-> cumProfit,
   months |-> Append(st.months,
                     MonthResult(k, ta, cnt, bRev, bProfit, rRev, rProfit, cumRev, cumProfit))]

\* ... and after the iteration for month k (lines 129-160), from the state st before it
LoopBody(st, k, scenario_, tierMap_, tierEcon_) ==
  Bind(CarriedActive(k, st.totalActive, scenario_), LAMBDA ta :
  Bind(Counts(ta, scenario_), LAMBDA cnt :
  Bind(MonthBulk("bulkRev", cnt, tierMap_, tierEcon_), LAMBDA bRev :
  Bind(MonthBulk("bulkProfit", cnt, tierMap_, tierEcon_), LAMBDA bProfit :
  Bind(MonthRetail("retailRev", cnt, tierMap_, tierEcon_, scenario_), LAMBDA rRev :
  Bind(MonthRetail("retailProfit", cnt, tierMap_, tierEcon_, scenario_), LAMBDA rProfit :
  Bind(Accumulate(st.cumulativeRev, RAdd(bRev, rRev)), LAMBDA cumRev :
  Bind(Accumulate(st.cumulativeProfit, RAdd(bProfit, rProfit)), LAMBDA cumProfit :
    LoopState(st, k, ta, cnt, bRev, bProfit, rRev, rProfit, cumRev, cumProfit)))))))))

\* the loop's state after its first k iterations
RECURSIVE LoopAfter(_, _, _, _)
LoopAfter(k, scenario_, tierMap_, tierEcon_) ==
  IF k = 0 THEN LoopEntry(scenario_)
  ELSE Bind(LoopAfter(k - 1, scenario_, tierMap_, tierEcon_),
            LAMBDA st : LoopBody(st, k, scenario_, tierMap_, tierEcon_))

RECURSIVE LoopExit(_, _, _, _)
LoopExit(k, scenario_, tierMap_, tierEcon_) ==
  IF LoopContinues(k + 1) THEN LoopExit(k + 1, scenario_, tierMap_, tierEcon_) ELSE k

\* projectScenario as a function of its arguments: the months it returns
projectScenario(scenario_, tiers_, bulkProducts_, retailProducts_) ==
  Bind(TierMap(tiers_), LAMBDA tm :
  Bind(TierEcon(tiers_, bulkProducts_, retailProducts_), LAMBDA te :
    LoopAfter(LoopExit(0, scenario_, tm, te), scenario_, tm, te).months))

\* ------------------------------------------------------------------ inputs

MaxStart == 1
MaxNew == 2

\* Two families of arguments.  With churn 0 or 100 the partner count stays a
\* whole number, and any tier list goes with it; with churn 50 it is a dyadic
\* fraction (denominator up to 2^11), and goes with tiers whose economics are
\* whole numbers.
PctMixes == { <<50, 35, 15>>, <<100, 0, 0>>, <<50, 50, 50>> }
DyadicMixes == { <<50, 50, 0>>, <<25, 25, 25>> }
AttachVals == {0, 50, 100}

ScenarioOf(sp, np, mix, ch, at) ==
  [name |-> "Base Case", startingPartners |-> Q(sp), newPartnersPerMonth |-> Q(np),
   pctSmall |-> Q(mix[1]), pctMedium |-> Q(mix[2]), pctLarge |-> Q(mix[3]),
   monthlyChurnPct |-> Q(ch), retailAttachPct |-> Q(at), color |-> "#f5b5c2"]

WholeScenarios ==
  { ScenarioOf(sp, np, mix, ch, at) :
      sp \in 0..MaxStart, np \in 0..MaxNew, mix \in PctMixes, ch \in {0, 100}, at \in AttachVals }

HalvingScenarios ==
  { ScenarioOf(sp, np, mix, 50, at) :
      sp \in 0..MaxStart, np \in 0..MaxNew, mix \in DyadicMixes, at \in AttachVals }

\* a fourth tier, and tiers whose id is shared or empty
KioskTier ==
  [id |-> "kiosk", label |-> "Kiosk", bulkProductIds |-> <<"dk10">>, drinksPerDay |-> Q(5),
   tspPerDrink |-> Dec(1, 2), daysPerMonth |-> Q(20), retailProductIds |-> <<>>, retailUnitsPerMonth |-> Q(0)]

TierConfigs ==
  { <<>>, <<SmallTier>>, <<SmallTier, MediumTier>>, DEFAULT_TIERS,
    <<SmallTier, MediumTier, LargeTier, KioskTier>>,
    <<SmallTier, [MediumTier EXCEPT !.id = "small"], LargeTier>>,
    <<SmallTier, MediumTier, [LargeTier EXCEPT !.id = ""]>>,
    <<SmallTier, MediumTier, LargeTier, [KioskTier EXCEPT !.id = "small"]>> }

\* a tier of whole-number economics: one 5lb bag a month, two pouches of ten
BarTier ==
  [id |-> "bar", label |-> "Bar", bulkProductIds |-> <<"ev5">>, drinksPerDay |-> Q(30),
   tspPerDrink |-> Q(1), daysPerMonth |-> Q(30), retailProductIds |-> <<"evp", "dkp">>, retailUnitsPerMonth |-> Q(20)]

PlainTierConfigs ==
  { <<MediumTier>>, <<BarTier, MediumTier>>, <<BarTier, MediumTier, [BarTier EXCEPT !.id = "large"]>> }

Inputs == (WholeScenarios \X TierConfigs) \cup (HalvingScenarios \X PlainTierConfigs)

\* ------------------------------------------------------------ state machine

VARIABLES
  scenario, tiers, bulkProducts, retailProducts,   \* the arguments of the call
  pc,                                              \* "call", "loop" or "done"
  tierEcon, tierMap,                               \* lines 114-117
  m,                                               \* the loop counter
  loop,                                            \* totalActive, counts, the month's sums,
                                                   \* cumulativeRev, cumulativeProfit, months
  tier,                                            \* the tier argument of calcTierEconomics
  econ,                                            \* the locals of calcTierEconomics
  history,                                         \* the calls returned so far: arguments and months
  scenarios,                                       \* the scenarios state of the dashboard, line 392
  rendered,                                        \* the scenarios the handlers on screen were made
                                                   \* from, and the handler calls issued from them
  ops                                              \* the handler calls made so far

vars ==
  << scenario, tiers, bulkProducts, retailProducts, pc, tierEcon, tierMap, m, loop, tier, econ, history,
     scenarios, rendered, ops >>

args == << scenario, tiers, bulkProducts, retailProducts >>

\* what a call of projectScenario has no access to
others == << tier, econ, history, scenarios, rendered, ops >>

\* The locals of a call of calcTierEconomics, at the control point at: the
\* selections, the shares, the index of the callback to run next, the running
\* sums, the unrounded values of the bulk callbacks run so far, and the record
\* returned.
EconFrame(at) ==
  [pc |-> at, selectedBulk |-> << >>, selectedRetail |-> << >>,
   totalServingsPerMonth |-> Q(0), servingsPerProduct |-> Q(0), retailUnitsPerProduct |-> Q(0),
   i |-> 0, bulk |-> << >>,
   bulkRev |-> Q(0), bulkProfit |-> Q(0), retailRev |-> Q(0), retailProfit |-> Q(0),
   result |-> Undefined]

\* the frame of projectScenario before the call is entered
NotEntered ==
  /\ tierEcon = << >>
  /\ tierMap = TierMap(<< >>)
  /\ m = 0
  /\ loop = LoopEntry([startingPartners |-> Q(0)])

\* calcTierEconomics is not being run on its own
EconIdle == tier = SmallTier /\ econ = EconFrame("idle")

\* what is on screen after a render of the scenarios s: the handlers close over
\* s (lines 400-408, 782, 799), and none of them has been called yet
Render(s) == [scenarios |-> s, issued |-> 0]

\* the dashboard as mounted, lines 389-392, with no handler called
DashboardIdle ==
  /\ scenarios = DEFAULT_SCENARIOS
  /\ rendered = Render(DEFAULT_SCENARIOS)
  /\ ops = 0

Init ==
  /\ \E inp \in Inputs : scenario = inp[1] /\ tiers = inp[2]
  /\ bulkProducts = DEFAULT_BULK_PRODUCTS
  /\ retailProducts = DEFAULT_RETAIL_PRODUCTS
  /\ pc = "call"
  /\ NotEntered
  /\ EconIdle
  /\ history = << >>
  /\ DashboardIdle

\* the for statement of line 128, as it moves pc and m
\* let m = 1
ForInit == pc = "call" /\ pc' = "loop" /\ m' = 1

\* m <= 12 holds: the body runs, then m++
ForStep == pc = "loop" /\ LoopContinues(m) /\ pc' = pc /\ m' = m + 1

\* m <= 12 fails: the loop is left
ForExit == pc = "loop" /\ ~LoopContinues(m) /\ pc' = "done" /\ m' = m

\* faulty variant of lines 124-126: the accumulators live outside the function and
\* keep what the previous call left in them
EnterKeepsSums ==
  /\ ForInit
  /\ tierEcon' = TierEcon(tiers, bulkProducts, retailProducts)
  /\ tierMap' = TierMap(tiers)
  /\ loop' = [LoopEntry(scenario) EXCEPT !.cumulativeRev = loop.cumulativeRev,
                                         !.cumulativeProfit = loop.cumulativeProfit]
  /\ UNCHANGED << args, others >>

\* lines 114-126: everything before the loop
Enter ==
  /\ ForInit
  /\ tierEcon' = TierEcon(tiers, bulkProducts, retailProducts)
  /\ tierMap' = TierMap(tiers)
  /\ loop' = LoopEntry(scenario)
  /\ UNCHANGED << args, others >>

\* lines 128-161: one iteration of the loop, for month m
Iterate ==
  /\ ForStep
  /\ loop' = LoopBody(loop, m, scenario, tierMap, tierEcon)
  /\ UNCHANGED << args, tierEcon, tierMap, others >>

\* line 162: the loop is over, months is returned
Return ==
  /\ ForExit
  /\ UNCHANGED << args, tierEcon, tierMap, loop, others >>

Next == Enter \/ Iterate \/ Return

Spec == Init /\ [][Next]_vars

\* the control flow of Next. Each action of Next is one of these steps together
\* with assignments of the other variables, so a step of Next can be taken
\* exactly when a step of Control can, and changes pc or m.
Control == ForInit \/ ForStep \/ ForExit

\* the call is synchronous code: once entered it runs on to its return
FairSpec == Spec /\ WF_<< pc, m >>(Control)

\* ------------------------------------------- calcTierEconomics, step by step

\* The tiers calcTierEconomics is run on: product selections that are missing,
\* empty, resolved, partly or wholly unresolved, with the usage of the default
\* tiers and of a kiosk (5 drinks of half a teaspoon, 20 days).
BulkSelections ==
  { << >>, <<"ev1">>, <<"ev5">>, <<"ev5", "dk5">>, <<"zzz">>, <<"ev1", "zzz">>,
    <<"ev1", "ev5", "dk5", "dk10">> }
RetailSelections == { << >>, <<"evp">>, <<"evp", "dkp">>, <<"dkp", "nope">> }
Usages == { <<Q(10), Q(1), Q(30)>>, <<Q(60), Q(1), Q(30)>>, <<Q(5), Dec(1, 2), Q(20)>> }
RetailUnits == { Q(10), Q(25) }

TierOf(bulkIds, retailIds, use, units) ==
  [id |-> "tier", label |-> "Tier", bulkProductIds |-> bulkIds, drinksPerDay |-> use[1],
   tspPerDrink |-> use[2], daysPerMonth |-> use[3], retailProductIds |-> retailIds,
   retailUnitsPerMonth |-> units]

\* the tier t without its property key
Without(t, key) == [f \in DOMAIN t \ {key} |-> t[f]]

FullTiers ==
  { TierOf(b, r, u, n) : b \in BulkSelections, r \in RetailSelections, u \in Usages, n \in RetailUnits }

TierInputs ==
  FullTiers
    \cup { Without(t, "bulkProductIds") : t \in { x \in FullTiers : x.bulkProductIds = << >> } }
    \cup { Without(t, "retailProductIds") : t \in { x \in FullTiers : x.retailProductIds = << >> } }

\* the catalogs: the defaults, and the defaults after an edit of one field (the
\* 5lb bag set to 0 servings; the pouch's cogs set to 4.01, its retail price to 30)
BulkCatalogs == { DEFAULT_BULK_PRODUCTS, [DEFAULT_BULK_PRODUCTS EXCEPT ![2].servings = Q(0)] }
RetailCatalogs ==
  { DEFAULT_RETAIL_PRODUCTS,
    [DEFAULT_RETAIL_PRODUCTS EXCEPT ![1].cogs = Dec(401, 100)],
    [DEFAULT_RETAIL_PRODUCTS EXCEPT ![1].retailPrice = Q(30)] }

\* projectScenario is not being run
ProjectionIdle ==
  /\ scenario = ScenarioOf(1, 2, <<50, 35, 15>>, 0, 50)
  /\ tiers = << >>
  /\ pc = "idle"
  /\ NotEntered
  /\ history = << >>
  /\ DashboardIdle

projection == << scenario, tiers, pc, tierEcon, tierMap, m, loop, history, scenarios, rendered, ops >>

EconInit ==
  /\ tier \in TierInputs
  /\ bulkProducts \in BulkCatalogs
  /\ retailProducts \in RetailCatalogs
  /\ econ = EconFrame("call")
  /\ ProjectionIdle

\* lines 80-86: the selections, the servings and the share of each bulk product
EconEnter ==
  /\ econ.pc = "call"
  /\ econ' = [econ EXCEPT
       !.pc = "bulk",
       !.selectedBulk = SelectedBulk(tier, bulkProducts),
       !.selectedRetail = SelectedRetail(tier, retailProducts),
       !.totalServingsPerMonth = TotalServingsPerMonth(tier),
       !.servingsPerProduct = ServingsPerProduct(tier, SelectedBulk(tier, bulkProducts)),
       !.i = 1]
  /\ UNCHANGED << tier, bulkProducts, retailProducts, projection >>

\* lines 87-94: the callback of selectedBulk.map for the product at index i
BulkMap ==
  /\ econ.pc = "bulk"
  /\ econ.i <= Len(econ.selectedBulk)
  /\ \E line \in { BulkLines(econ.selectedBulk, econ.servingsPerProduct)[econ.i] } :
       econ' = [econ EXCEPT
         !.bulk = Append(@, line),
         !.bulkRev = RAdd(@, line.rev),
         !.bulkProfit = RAdd(@, line.profit),
         !.i = @ + 1]
  /\ UNCHANGED << tier, bulkProducts, retailProducts, projection >>

\* lines 96-97: the map is over; the share of each retail product
RetailShare ==
  /\ econ.pc = "bulk"
  /\ econ.i > Len(econ.selectedBulk)
  /\ econ' = [econ EXCEPT
       !.pc = "retail",
       !.retailUnitsPerProduct = RetailUnitsPerProduct(tier, econ.selectedRetail),
       !.i = 1]
  /\ UNCHANGED << tier, bulkProducts, retailProducts, projection >>

\* lines 98-101: the callback of selectedRetail.forEach for the product at index i
RetailEach ==
  /\ econ.pc = "retail"
  /\ econ.i <= Len(econ.selectedRetail)
  /\ \E line \in { RetailLines(econ.selectedRetail, econ.retailUnitsPerProduct)[econ.i] } :
       econ' = [econ EXCEPT
         !.retailRev = RAdd(@, line.rev),
         !.retailProfit = RAdd(@, line.profit),
         !.i = @ + 1]
  /\ UNCHANGED << tier, bulkProducts, retailProducts, projection >>

\* lines 103-110: the record is returned
EconReturn ==
  /\ econ.pc = "retail"
  /\ econ.i > Len(econ.selectedRetail)
  /\ econ' = [econ EXCEPT
       !.pc = "done",
       !.result = TierEconomicsRecord(tier, econ.selectedBulk, econ.bulk, econ.bulkRev,
                                      econ.bulkProfit, econ.retailRev, econ.retailProfit)]
  /\ UNCHANGED << tier, bulkProducts, retailProducts, projection >>

EconNext == EconEnter \/ BulkMap \/ RetailShare \/ RetailEach \/ EconReturn

EconSpec == EconInit /\ [][EconNext]_vars

\* --------------------------------------------------------- degenerate inputs

\* scenarios whose percentages do not sum to 100 or lie outside 0..100
OddMixes == { <<0, 0, 0>>, <<150, -20, 0>>, <<120, 120, 120>> }
OddScenarios ==
  { ScenarioOf(sp, np, mix, ch, at) :
      sp \in {0, 1}, np \in {0, 1}, mix \in OddMixes, ch \in {100, 200}, at \in {-50, 150} }

\* catalogs whose products have 0 servings per bag, and an empty retail catalog
NoServingsCatalog ==
  [i \in 1..Len(DEFAULT_BULK_PRODUCTS) |-> [DEFAULT_BULK_PRODUCTS[i] EXCEPT !.servings = Q(0)]]
OddCatalogs ==
  { << NoServingsCatalog, DEFAULT_RETAIL_PRODUCTS >>,
    << [DEFAULT_BULK_PRODUCTS EXCEPT ![2].servings = Q(0)], << >> >> }

\* tier lists: none; selections that are missing, empty or unresolved; no drinks
OddTierLists ==
  { << >>,
    << Without(SmallTier, "bulkProductIds"), [MediumTier EXCEPT !.retailProductIds = << >>] >>,
    << [SmallTier EXCEPT !.bulkProductIds = <<"zzz">>], MediumTier,
       [LargeTier EXCEPT !.retailProductIds = <<"nope">>] >>,
    << [SmallTier EXCEPT !.drinksPerDay = Q(0)], [MediumTier EXCEPT !.retailUnitsPerMonth = Q(0)],
       LargeTier >> }

RobustInit ==
  /\ scenario \in OddScenarios
  /\ tiers \in OddTierLists
  /\ \E c \in OddCatalogs : bulkProducts = c[1] /\ retailProducts = c[2]
  /\ pc = "call"
  /\ NotEntered
  /\ EconIdle
  /\ history = << >>
  /\ DashboardIdle

\* the same call, on degenerate arguments; it runs on to its return
RobustSpec == RobustInit /\ [][Next]_vars /\ WF_<< pc, m >>(Control)

\* ------------------------------------------------------------ repeated calls

MaxCalls == 3

\* the arguments of the calls: three scenarios with their tiers
CallInputs ==
  { << ScenarioOf(1, 2, <<50, 35, 15>>, 0, 50), DEFAULT_TIERS >>,
    << ScenarioOf(1, 1, <<50, 50, 0>>, 50, 100), << BarTier, MediumTier >> >>,
    << ScenarioOf(0, 2, <<100, 0, 0>>, 100, 0), << SmallTier >> >> }

CallsInit ==
  /\ \E inp \in CallInputs : scenario = inp[1] /\ tiers = inp[2]
  /\ bulkProducts = DEFAULT_BULK_PRODUCTS
  /\ retailProducts = DEFAULT_RETAIL_PRODUCTS
  /\ pc = "call"
  /\ NotEntered
  /\ EconIdle
  /\ history = << >>
  /\ DashboardIdle

\* lines 410-413: projectScenario is called again, after it has returned, with
\* arguments of the caller's choice. Nothing is done to what the previous call
\* left behind: the new call starts with its own statements (Enter).
CallAgain ==
  /\ pc = "done"
  /\ Len(history) + 1 < MaxCalls
  /\ history' = Append(history, [arguments |-> args, months |-> loop.months])
  /\ \E inp \in CallInputs : scenario' = inp[1] /\ tiers' = inp[2]
  /\ pc' = "call"
  /\ UNCHANGED << bulkProducts, retailProducts, tierEcon, tierMap, m, loop, tier, econ >>
  /\ UNCHANGED << scenarios, rendered, ops >>

CallsNext == Enter \/ Iterate \/ Return \/ CallAgain

CallsSpec == CallsInit /\ [][CallsNext]_vars

\* ---------------------------------------------------------------- dashboard

\* line 402: the most scenarios the dashboard takes
MaxScenarios == 5

\* { ...x, [field]: val }
Put(x, field, val) == [k \in DOMAIN x \cup {field} |-> IF k = field THEN val ELSE x[k]]

\* faulty variant of lines 396-399: the position is counted from 1
UpdateAtFromOne(coll, idx, field, val) ==
  [i \in 1..Len(coll) |-> IF i = idx THEN Put(coll[i], field, val) ELSE coll[i]]

\* lines 396-399: coll.map((x, i) => i === idx ? { ...x, [field]: val } : x),
\* positions counted from 0
UpdateAt(coll, idx, field, val) ==
  [i \in 1..Len(coll) |-> IF i - 1 = idx THEN Put(coll[i], field, val) ELSE coll[i]]

\* the updaters passed to the four setters, applied to the state s
updateBulk(s, idx, field, val) == UpdateAt(s, idx, field, val)
updateRetail(s, idx, field, val) == UpdateAt(s, idx, field, val)
updateTier(s, idx, field, val) == UpdateAt(s, idx, field, val)
updateScenario(s, idx, field, val) == UpdateAt(s, idx, field, val)

\* line 400: s.filter((_, i) => i !== idx)
removeScenario(s, idx) ==
  IF idx \notin 0..(Len(s) - 1) THEN s
  ELSE [i \in 1..(Len(s) - 1) |-> IF i - 1 < idx THEN s[i] ELSE s[i + 1]]

\* lines 403-406: the scenario appended to s
NewScenario(s) ==
  ScenarioRecord("Scenario " \o ToString(Len(s) + 1), 1, 2, 50, 35, 15, 2, 50,
                 IF Len(s) + 1 <= Len(SCENARIO_COLORS) THEN SCENARIO_COLORS[Len(s) + 1] ELSE "#999")

\* faulty variant of lines 401-408: no test of the length
addScenarioUnguarded(shown, s) == Append(s, NewScenario(s))

\* lines 401-408: the test of line 402 reads the scenarios of the render the
\* handler was made in (shown); the updater of line 403 is applied to the state
\* (s) at the time it runs
addScenario(shown, s) == IF Len(shown) >= MaxScenarios THEN s ELSE Append(s, NewScenario(s))

\* the value handed to onChange by toggle, lines 256-261
\* faulty variant: the last selected id can be removed
toggleUnguarded(values, id) ==
  IF Includes(values, id) THEN SelectSeq(values, LAMBDA v : v # id) ELSE Append(values, id)

\* lines 256-261: the new selection; where the code calls nothing (the only
\* selected id is toggled) the selection stays what it is
toggle(values, id) ==
  IF Includes(values, id)
  THEN IF Len(values) > 1 THEN SelectSeq(values, LAMBDA v : v # id) ELSE values
  ELSE Append(values, id)

\* faulty variant of lines 410-413: every entry holds the projection of the
\* first scenario
AllProjectionsOfFirst(scens) ==
  [k \in 1..Len(scens) |->
    [scenario |-> scens[k],
     data |-> projectScenario(scens[1], tiers, bulkProducts, retailProducts)]]

\* lines 410-413: scens.map(s => ({ scenario: s, data: projectScenario(s, ...) }))
AllProjectionsOf(scens) ==
  [k \in 1..Len(scens) |->
    [scenario |-> scens[k],
     data |-> projectScenario(scens[k], tiers, bulkProducts, retailProducts)]]

allProjections == AllProjectionsOf(scenarios)

\* line 415: the number of records of the chart
ChartMonths == 12

\* lines 419-423: the suffixes of the five chart keys of a scenario, and the
\* field of the month's result stored under each
Suffixes == << "_rev", "_profit", "_partners", "_margin", "_cumRev" >>

Metric(d, suffix) ==
  CASE suffix = "_rev" -> d.totalRevenue
    [] suffix = "_profit" -> d.totalProfit
    [] suffix = "_partners" -> d.totalActive
    [] suffix = "_margin" -> d.marginPct
    [] suffix = "_cumRev" -> d.cumulativeRev

\* lines 419-423: the five assignments for one entry of allProjections
RECURSIVE Assign(_, _, _, _)
Assign(point, entry, i, j) ==
  IF j > Len(Suffixes) THEN point
  ELSE Assign(Put(point, entry.scenario.name \o Suffixes[j], Metric(entry.data[i], Suffixes[j])),
              entry, i, j + 1)

\* lines 416-425: the record of month i after the entries 1..k of projs
RECURSIVE Point(_, _, _)
Point(i, projs, k) ==
  IF k = 0 THEN [month |-> i, label |-> MonthLabel(i)]
  ELSE Assign(Point(i, projs, k - 1), projs[k], i, 1)

\* lines 415-428
ChartDataOf(projs) == [i \in 1..ChartMonths |-> Point(i, projs, Len(projs))]

\* ------------------------------------------------- the dashboard's handlers

MaxOps == 3

\* what no handler of the dashboard writes
idle == << scenario, pc, tierEcon, tierMap, m, loop, tier, econ, history >>

\* one more handler call, of at most limit
Handled(limit) == ops < limit /\ ops' = ops + 1 /\ UNCHANGED idle

\* the render that follows a handler's state update, before the next event
Rerendered == rendered' = Render(scenarios')

\* faulty variant of lines 627-630: the table has an input for the id
BulkEditsWithId == { << 0, "wholesale", Q(0) >>, << 0, "id", "ev5" >> }

\* lines 627-630: position, field and value of edits of the bulk table
BulkEdits ==
  { << 0, "wholesale", Q(0) >>, << 0, "cogs", Q(90) >>, << 1, "cogs", Q(400) >> }

\* lines 661-663
RetailEdits == { << 0, "wholesalePrice", Q(0) >>, << 1, "cogs", Q(20) >> }

\* lines 705-707, 718
TierEdits == { << 1, "drinksPerDay", Q(0) >>, << 2, "retailUnitsPerMonth", Q(40) >> }

\* lines 701, 714: tier position, selection and option of clicks on the checkboxes
ToggleChoices ==
  ({0, 2} \X {"bulkProductIds"} \X {"ev1", "ev5"}) \cup
  ({0, 2} \X {"retailProductIds"} \X {"evp", "dkp"})

\* lines 796, 804-815
ScenarioEdits ==
  { << 0, "name", "Aggressive" >>, << 1, "name", "Base Case" >>,
    << 0, "monthlyChurnPct", Q(0) >> }

UpdateBulk ==
  /\ Handled(MaxOps)
  /\ \E e \in BulkEdits :
       e[1] \in 0..(Len(bulkProducts) - 1) /\ bulkProducts' = updateBulk(bulkProducts, e[1], e[2], e[3])
  /\ UNCHANGED << retailProducts, tiers, scenarios >>
  /\ Rerendered

UpdateRetail ==
  /\ Handled(MaxOps)
  /\ \E e \in RetailEdits :
       e[1] \in 0..(Len(retailProducts) - 1)
       /\ retailProducts' = updateRetail(retailProducts, e[1], e[2], e[3])
  /\ UNCHANGED << bulkProducts, tiers, scenarios >>
  /\ Rerendered

UpdateTier ==
  /\ Handled(MaxOps)
  /\ \E e \in TierEdits :
       e[1] \in 0..(Len(tiers) - 1) /\ tiers' = updateTier(tiers, e[1], e[2], e[3])
  /\ UNCHANGED << bulkProducts, retailProducts, scenarios >>
  /\ Rerendered

\* lines 701, 714: a click on a checkbox of a tier card; toggle calls onChange,
\* which is updateTier on that selection. On the only selected id toggle calls
\* nothing: the selection written back is the one the tier has.
Toggle ==
  /\ Handled(MaxOps)
  /\ \E c \in ToggleChoices :
       /\ c[1] \in 0..(Len(tiers) - 1)
       /\ tiers' = updateTier(tiers, c[1], c[2], toggle(tiers[c[1] + 1][c[2]], c[3]))
  /\ UNCHANGED << bulkProducts, retailProducts, scenarios >>
  /\ Rerendered

\* lines 796, 804-815: an input of the card of a scenario on screen
UpdateScenario(limit, edits) ==
  /\ Handled(limit)
  /\ \E e \in edits :
       e[1] \in 0..(Len(rendered.scenarios) - 1)
       /\ scenarios' = updateScenario(scenarios, e[1], e[2], e[3])
  /\ UNCHANGED << bulkProducts, retailProducts, tiers >>
  /\ Rerendered

\* lines 401-408: addScenario is called, and the dashboard renders again
AddScenario(limit) ==
  /\ Handled(limit)
  /\ scenarios' = addScenario(rendered.scenarios, scenarios)
  /\ UNCHANGED << bulkProducts, retailProducts, tiers >>
  /\ Rerendered

\* lines 799-801: a click on Remove, which is on screen for every scenario when
\* there is more than one
RemoveScenario(limit) ==
  /\ Handled(limit)
  /\ Len(rendered.scenarios) > 1
  /\ \E idx \in 0..(Len(rendered.scenarios) - 1) : scenarios' = removeScenario(scenarios, idx)
  /\ UNCHANGED << bulkProducts, retailProducts, tiers >>
  /\ Rerendered

\* the dashboard as mounted; projectScenario and calcTierEconomics are not
\* being stepped
DashInit ==
  /\ scenario = ScenarioOf(1, 2, <<50, 35, 15>>, 0, 50)
  /\ tiers = DEFAULT_TIERS
  /\ bulkProducts = DEFAULT_BULK_PRODUCTS
  /\ retailProducts = DEFAULT_RETAIL_PRODUCTS
  /\ pc = "idle"
  /\ NotEntered
  /\ EconIdle
  /\ history = << >>
  /\ DashboardIdle

DashNext ==
  \/ UpdateBulk
  \/ UpdateRetail
  \/ UpdateTier
  \/ Toggle
  \/ UpdateScenario(MaxOps, ScenarioEdits)
  \/ AddScenario(MaxOps)
  \/ RemoveScenario(MaxOps)

DashSpec == DashInit /\ [][DashNext]_vars

\* ------------------------------------------- calls made from the same render

\* the handler calls one render takes, and the calls of a run
MaxIssued == 2
MaxRaceOps == 4

\* a handler of the render on screen is called; the dashboard has not rendered
\* again since that render's earlier calls
Issued ==
  /\ Handled(MaxRaceOps)
  /\ rendered.issued < MaxIssued
  /\ rendered' = [rendered EXCEPT !.issued = @ + 1]
  /\ UNCHANGED << bulkProducts, retailProducts, tiers >>

\* line 782: the Add button of the render on screen, and its addScenario; the
\* updater of line 403 is applied to the state the earlier calls have left
ClickAdd ==
  /\ Issued
  /\ Len(rendered.scenarios) < MaxScenarios
  /\ scenarios' = addScenario(rendered.scenarios, scenarios)

\* lines 799-801: a Remove button of the render on screen, and its
\* removeScenario(i); the updater of line 400 is applied to the state the
\* earlier calls have left
ClickRemove ==
  /\ Issued
  /\ Len(rendered.scenarios) > 1
  /\ \E idx \in 0..(Len(rendered.scenarios) - 1) : scenarios' = removeScenario(scenarios, idx)

\* the dashboard renders the state
Rendering ==
  /\ rendered.issued > 0
  /\ rendered' = Render(scenarios)
  /\ UNCHANGED << bulkProducts, retailProducts, tiers, scenarios, ops, idle >>

RaceNext == ClickAdd \/ ClickRemove \/ Rendering

RaceSpec == DashInit /\ [][RaceNext]_vars

\* ---------------------------------------------- the scenarios and the chart

MaxChartOps == 3

\* the default scenarios after each churn slider (line 814) was moved to 0
SettledScenarios ==
  [k \in 1..Len(DEFAULT_SCENARIOS) |-> Put(DEFAULT_SCENARIOS[k], "monthlyChurnPct", Q(0))]

\* lines 796, 805, 814: a rename to the name of the first default scenario, no
\* new partners for the first scenario, no churn for the fourth
ChartEdits ==
  { << 1, "name", "Base Case" >>, << 0, "newPartnersPerMonth", Q(0) >>,
    << 3, "monthlyChurnPct", Q(0) >> }

\* every scenario has a churn of 0. (A scenario added by addScenario has a
\* churn of 2%, whose twelfth month is a fraction over 50^11: its exact value
\* is not computed here.)
Projectable == \A k \in 1..Len(scenarios) : scenarios[k].monthlyChurnPct = Q(0)

ChartInit ==
  /\ scenario = ScenarioOf(1, 2, <<50, 35, 15>>, 0, 50)
  /\ tiers = DEFAULT_TIERS
  /\ bulkProducts = DEFAULT_BULK_PRODUCTS
  /\ retailProducts = DEFAULT_RETAIL_PRODUCTS
  /\ pc = "idle"
  /\ NotEntered
  /\ EconIdle
  /\ history = << >>
  /\ scenarios = SettledScenarios
  /\ rendered = Render(SettledScenarios)
  /\ ops = 0

ChartNext ==
  \/ AddScenario(MaxChartOps)
  \/ RemoveScenario(MaxChartOps)
  \/ UpdateScenario(MaxChartOps, ChartEdits)

\* the scenario cards alone: scenarios are added, removed and edited, and
\* allProjections and chartData are computed from each state
ChartSpec == ChartInit /\ [][ChartNext]_vars

\* ------------------------------------------------------------------ claims

Months == loop.months
Iterated == Len(Months) >= 1
Latest == Months[Len(Months)]
PctSum == scenario.pctSmall.n + scenario.pctMedium.n + scenario.pctLarge.n

\* C1: in every iteration for a month m in 2..12 the carried partner count becomes
\* the prior month's count times (1 - monthlyChurnPct/100) plus newPartnersPerMonth:
\* churn is taken from the prior count only, the month's new partners are not
\* churned (start 1, new 2, churn 50%: 2.5 at month 2 and 3.25 at month 3; churn
\* 100%: the count of month 2 is the 2 new partners).
C1_ChurnThenGrowth ==
  [][ (pc = "loop" /\ m >= 2 /\ m' = m + 1) =>
        /\ loop'.totalActive =
             RAdd(RDiv(RMul(loop.totalActive, RSub(Q(100), scenario.monthlyChurnPct)), Q(100)),
                  scenario.newPartnersPerMonth)
        /\ (scenario.startingPartners = Q(1) /\ scenario.newPartnersPerMonth = Q(2)) =>
             /\ (scenario.monthlyChurnPct = Q(50) /\ m = 2) => loop'.totalActive = Dec(5, 2)
             /\ (scenario.monthlyChurnPct = Q(50) /\ m = 3) => loop'.totalActive = Dec(13, 4)
             /\ (scenario.monthlyChurnPct = Q(100) /\ m = 2) => loop'.totalActive = Q(2) ]_vars

C1_Witness ==
  /\ pc = "loop" /\ m = 4
  /\ scenario.startingPartners = Q(1) /\ scenario.newPartnersPerMonth = Q(2)
  /\ scenario.monthlyChurnPct = Q(50)
  /\ loop.totalActive = Dec(13, 4)

\* C2: the month-1 result has totalActive equal to startingPartners, whatever the
\* churn and the new partners per month are, and so has the carried count while
\* month 1 is the latest month.
C2_MonthOneIsStart ==
  Iterated =>
    /\ Months[1].totalActive = scenario.startingPartners
    /\ Len(Months) = 1 => loop.totalActive = scenario.startingPartners

C2_Witness ==
  /\ Iterated
  /\ scenario.startingPartners = Q(1) /\ scenario.newPartnersPerMonth = Q(2)
  /\ scenario.monthlyChurnPct = Q(100)
  /\ Months[1].totalActive = Q(1)

\* C3: with monthlyChurnPct = 0, the result of every month k has totalActive equal
\* to startingPartners + (k - 1) * newPartnersPerMonth.
C3_NoChurnLinear ==
  scenario.monthlyChurnPct = Q(0) =>
    \A k \in 1..Len(Months) :
      Months[k].totalActive = Q(scenario.startingPartners.n + (k - 1) * scenario.newPartnersPerMonth.n)

C3_Witness ==
  /\ pc = "done"
  /\ scenario.startingPartners = Q(1) /\ scenario.newPartnersPerMonth = Q(2)
  /\ scenario.monthlyChurnPct = Q(0)
  /\ Months[12].totalActive = Q(23)

RECURSIVE SumTotalRevenue(_)
SumTotalRevenue(k) == IF k = 0 THEN 0 ELSE SumTotalRevenue(k - 1) + Months[k].totalRevenue.n

Drift(k) == Abs(Months[k].cumulativeRev.n - SumTotalRevenue(k))

\* C4 as stated: at every month k the reported cumulativeRev and the sum of the
\* reported totalRevenue of months 1..k differ by no more than one whole unit.
C4_NoDrift == \A k \in 1..Len(Months) : Drift(k) <= 1

\* C4, amended: the reported cumulativeRev is the rounding of the sum of the
\* unrounded monthly totals, so it differs from the sum of the reported (rounded)
\* totalRevenue of months 1..k by at most k/2 whole units, rounded down (6 at
\* month 12).
C4_DriftBoundedByHalfMonths ==
  /\ \A k \in 1..Len(Months) : Drift(k) <= k \div 2
  /\ Iterated => Latest.cumulativeRev = MathRound(loop.cumulativeRev)

C4_Witness == pc = "done" /\ Drift(12) >= 2

Labels == << "M1", "M2", "M3", "M4", "M5", "M6", "M7", "M8", "M9", "M10", "M11", "M12" >>

TwelveInOrder ==
  /\ Len(Months) = 12
  /\ \A i \in 1..12 : Months[i].month = i /\ Months[i].label = Labels[i]

\* C5: every call of projectScenario comes to its return, and returns exactly 12
\* results in order, the i-th with month = i and label "M" followed by i, whatever
\* the scenario and the tiers are.
C5_ReturnsTwelveMonths == <>[](pc = "done" /\ TwelveInOrder)

C5_Witness == pc = "done" /\ TwelveInOrder /\ tiers = << >> /\ scenario.newPartnersPerMonth = Q(0)

\* the projection that takes the economics of the tiers at positions 1, 2 and 3,
\* whatever their ids are
PositionKeys == << "position 1", "position 2", "position 3" >>

PositionalEcon ==
  LET n == IF Len(tiers) < 3 THEN Len(tiers) ELSE 3
  IN  [key \in {PositionKeys[i] : i \in 1..n} |->
         calcTierEconomics(tiers[CHOOSE i \in 1..n : PositionKeys[i] = key], bulkProducts, retailProducts)]

PositionalProjection ==
  Bind(PositionalEcon, LAMBDA te :
    LoopAfter(12, scenario,
              [small |-> PositionKeys[1], medium |-> PositionKeys[2], large |-> PositionKeys[3]], te).months)

\* C6: the small, medium and large cohorts use the economics of the tiers at
\* positions 1, 2 and 3, by position only: the months returned are those of the
\* positional projection, whatever the ids of the tiers (equal or empty ids
\* included) and whatever tiers stand at position 4 or later.
C6_ByPositionOnly == pc = "done" => Months = PositionalProjection

\* a tier that stocks nothing: all its economics are zero
NoTier(key) ==
  [id |-> key, label |-> key, bulkProductIds |-> << >>, drinksPerDay |-> Q(0), tspPerDrink |-> Q(0),
   daysPerMonth |-> Q(0), retailProductIds |-> << >>, retailUnitsPerMonth |-> Q(0)]

Padded == tiers \o SubSeq(<< NoTier("none 1"), NoTier("none 2"), NoTier("none 3") >>, 1, 3 - Len(tiers))

MoneyFields ==
  { "bulkRevenue", "retailRevenue", "totalRevenue", "bulkProfit", "retailProfit", "totalProfit",
    "marginPct", "cumulativeRev", "cumulativeProfit" }

\* C7: with fewer than 3 tiers, a cohort whose position has no tier contributes
\* what a tier of zero economics would (nothing) and the other cohorts contribute
\* as usual, in every month; the cohort counts are reported all the same; with no
\* tier at all every revenue, profit, margin and cumulative field is 0.
C7_MissingCohortsContributeZero ==
  Len(tiers) < 3 =>
    /\ pc = "done" => Months = projectScenario(scenario, Padded, bulkProducts, retailProducts)
    /\ Iterated =>
         /\ Latest.small = Round2(RDiv(RMul(loop.totalActive, scenario.pctSmall), Q(100)))
         /\ Latest.medium = Round2(RDiv(RMul(loop.totalActive, scenario.pctMedium), Q(100)))
         /\ Latest.large = Round2(RDiv(RMul(loop.totalActive, scenario.pctLarge), Q(100)))
    /\ Len(tiers) = 0 => \A k \in 1..Len(Months) : \A f \in MoneyFields : Months[k][f] = Q(0)

C7_Witness ==
  /\ pc = "done" /\ Len(tiers) = 2
  /\ Months[12].large = Dec(345, 100)
  /\ Months[12].bulkRevenue = Q(4753)

CountSum == RAdd(RAdd(loop.counts.small, loop.counts.medium), loop.counts.large)

CountsAsGiven ==
  /\ loop.counts.small = RDiv(RMul(loop.totalActive, scenario.pctSmall), Q(100))
  /\ loop.counts.medium = RDiv(RMul(loop.totalActive, scenario.pctMedium), Q(100))
  /\ loop.counts.large = RDiv(RMul(loop.totalActive, scenario.pctLarge), Q(100))
  /\ CountSum = RDiv(RMul(loop.totalActive, Q(PctSum)), Q(100))

\* C8 as stated: each cohort count is totalActive * pct / 100 with the percentages
\* as given, their sum is totalActive * (pctSmall + pctMedium + pctLarge) / 100,
\* and the sum differs from totalActive whenever the percentages do not sum to 100.
C8_SplitDiffersWheneverNot100 ==
  Iterated => CountsAsGiven /\ (PctSum # 100 => CountSum # loop.totalActive)

\* C8, amended: as stated, but the sum differs from totalActive whenever the
\* percentages do not sum to 100 and totalActive is not zero (with no active
\* partner both are 0).
C8_SplitDiffersUnlessNoPartner ==
  Iterated =>
    /\ CountsAsGiven
    /\ (PctSum # 100 /\ loop.totalActive # Q(0)) => CountSum # loop.totalActive
    /\ (PctSum = 100 \/ loop.totalActive = Q(0)) => CountSum = loop.totalActive

C8_Witness ==
  /\ Iterated /\ PctSum = 150
  /\ loop.totalActive = Q(3) /\ CountSum = Dec(9, 2)

WithAttach(at) == [scenario EXCEPT !.retailAttachPct = Q(at)]

\* C9 as stated: the retailRevenue reported for each month at attach = 100 is
\* exactly double the one reported for that month at attach = 50, all else equal.
C9_ReportedExactlyDouble ==
  (pc = "done" /\ scenario.retailAttachPct = Q(100)) =>
    \A half \in {projectScenario(WithAttach(50), tiers, bulkProducts, retailProducts)} :
      \A k \in 1..12 : Months[k].retailRevenue.n = 2 * half[k].retailRevenue.n

\* C9, amended: the retail revenue of each month at attach = 100 is exactly double
\* the one at attach = 50 before it is rounded; the retailRevenue reported, which
\* is rounded to the whole unit, is within 1 of the double of the one reported at
\* attach = 50.
C9_DoubleBeforeRounding ==
  (pc = "loop" /\ Iterated /\ scenario.retailAttachPct = Q(100)) =>
    \A half \in {LoopAfter(Len(Months), WithAttach(50), tierMap, tierEcon)} :
      /\ loop.retailRev = RMul(Q(2), half.retailRev)
      /\ Abs(Latest.retailRevenue.n - 2 * half.months[Len(Months)].retailRevenue.n) <= 1

C9_Witness ==
  /\ pc = "loop" /\ Iterated /\ scenario.retailAttachPct = Q(100)
  /\ loop.retailRev = Dec(1365, 2) /\ Latest.retailRevenue = Q(683)

FrameFields == { "totalActive", "small", "medium", "large", "bulkRevenue", "bulkProfit" }

\* C10: for scenarios that differ only in retailAttachPct, every month's
\* totalActive, small, medium, large, bulkRevenue and bulkProfit are the same:
\* each scenario returns in these fields what its copy with retailAttachPct = 0
\* returns, and so what any other copy returns.
C10_AttachLeavesBulkAndCounts ==
  (pc = "done" /\ scenario.retailAttachPct # Q(0)) =>
    \A other \in {projectScenario(WithAttach(0), tiers, bulkProducts, retailProducts)} :
      \A k \in 1..12 : \A f \in FrameFields : other[k][f] = Months[k][f]

C10_Witness ==
  /\ pc = "done" /\ tiers = DEFAULT_TIERS /\ scenario.retailAttachPct = Q(100)
  /\ Months[12].retailRevenue.n > 0 /\ Months[12].bulkRevenue.n > 0


\* ------------------------------------------------- claims on a month's result

\* C11 as stated: in every monthly result the reported totalRevenue is the
\* reported bulkRevenue plus the reported retailRevenue, and the reported
\* totalProfit is the reported bulkProfit plus the reported retailProfit.
C11_ReportedTotalsAdd ==
  \A k \in 1..Len(Months) :
    /\ Months[k].totalRevenue = RAdd(Months[k].bulkRevenue, Months[k].retailRevenue)
    /\ Months[k].totalProfit = RAdd(Months[k].bulkProfit, Months[k].retailProfit)

TotalRev == RAdd(loop.bulkRev, loop.retailRev)
TotalProfit == RAdd(loop.bulkProfit, loop.retailProfit)

\* C11, amended: the month's totals are the sums of its bulk and retail parts
\* before rounding; each reported field is rounded on its own, so the reported
\* total is the rounding of the unrounded sum and is within 1 of the sum of the
\* two reported parts.
C11_TotalsAddBeforeRounding ==
  Iterated =>
    /\ Latest.totalRevenue = MathRound(TotalRev)
    /\ Latest.totalProfit = MathRound(TotalProfit)
    /\ Latest.bulkRevenue = MathRound(loop.bulkRev) /\ Latest.retailRevenue = MathRound(loop.retailRev)
    /\ Latest.bulkProfit = MathRound(loop.bulkProfit) /\ Latest.retailProfit = MathRound(loop.retailProfit)
    /\ \A k \in 1..Len(Months) :
         /\ Abs(Months[k].totalRevenue.n - Months[k].bulkRevenue.n - Months[k].retailRevenue.n) <= 1
         /\ Abs(Months[k].totalProfit.n - Months[k].bulkProfit.n - Months[k].retailProfit.n) <= 1

C11_Witness ==
  /\ Iterated /\ tiers = DEFAULT_TIERS
  /\ Latest.totalProfit.n = Latest.bulkProfit.n + Latest.retailProfit.n + 1

\* r is Math.round(x): the integer with r - 1/2 <= x < r + 1/2
IsRoundOf(r, x) ==
  /\ r.d = 1
  /\ ~RGt(RSub(r, Dec(1, 2)), x)
  /\ RGt(RAdd(r, Dec(1, 2)), x)

\* C12: in every monthly result marginPct is 0 when the month's total revenue is
\* not greater than 0, and otherwise the rounding of totalProfit / totalRevenue
\* * 1000, divided by 10, for the month's totals (those of lines 144-145); it is
\* always a number, no division by zero is made.
C12_MarginGuarded ==
  Iterated =>
    /\ \A k \in 1..Len(Months) : IsNum(Months[k].marginPct)
    /\ IF RGt(TotalRev, Q(0))
       THEN IsRoundOf(RMul(Latest.marginPct, Q(10)), RMul(RDiv(TotalProfit, TotalRev), Q(1000)))
       ELSE Latest.marginPct = Q(0)

C12_Witness ==
  /\ Len(Months) = 2 /\ tiers = DEFAULT_TIERS /\ scenario.retailAttachPct = Q(0)
  /\ Months[1].totalRevenue = Q(0) /\ Months[1].marginPct = Q(0)
  /\ Months[2].totalRevenue = Q(267) /\ Months[2].marginPct = Dec(838, 10)

\* ---------------------------------------------- claims on calcTierEconomics

Returned == econ.pc = "done"
Result == econ.result

\* the operator and the steps compute the same record
SameAsOperator == Returned => Result = calcTierEconomics(tier, bulkProducts, retailProducts)

\* the ids of a selection that some product of the catalog carries
HasId(products, id) == \E i \in 1..Len(products) : products[i].id = id
ResolvedIds(ids, products) == SelectSeq(ids, LAMBDA id : HasId(products, id))

NoBulkResolves ==
  \/ "bulkProductIds" \notin DOMAIN tier
  \/ \A i \in 1..Len(tier.bulkProductIds) : ~HasId(bulkProducts, tier.bulkProductIds[i])

\* C13: for a tier none of whose bulkProductIds resolves in the catalog (the list
\* may be empty or missing), calcTierEconomics returns bulkRev = 0, bulkProfit = 0
\* and an empty bulkBreakdown; servingsPerMonth is drinksPerDay * tspPerDrink *
\* daysPerMonth whatever the selection is.
C13_NoBulkSelected ==
  Returned =>
    /\ Result.servingsPerMonth = RMul(RMul(tier.drinksPerDay, tier.tspPerDrink), tier.daysPerMonth)
    /\ NoBulkResolves =>
         Result.bulkRev = Q(0) /\ Result.bulkProfit = Q(0) /\ Result.bulkBreakdown = << >>

C13_Witness ==
  /\ Returned /\ BulkIds(tier) = <<"zzz">> /\ tier.drinksPerDay = Q(10)
  /\ Result.bulkRev = Q(0) /\ Result.bulkBreakdown = << >>
  /\ Result.servingsPerMonth = Q(300) /\ Result.retailRev = Q(120)

\* the tier with the ids that match no product removed from its selections
Cleaned ==
  [f \in DOMAIN tier |->
     IF f = "bulkProductIds" THEN ResolvedIds(tier[f], bulkProducts)
     ELSE IF f = "retailProductIds" THEN ResolvedIds(tier[f], retailProducts)
     ELSE tier[f]]

\* C14: ids of tier.bulkProductIds or tier.retailProductIds that match no
\* catalog product are dropped: the record returned is the one returned for the
\* tier with those ids removed, and the shares are taken over the resolved
\* products only (N of them for servings, M for retail units).
C14_UnresolvedIdsDropped ==
  Returned =>
    /\ Result = calcTierEconomics(Cleaned, bulkProducts, retailProducts)
    /\ Len(econ.selectedBulk) = Len(ResolvedIds(BulkIds(tier), bulkProducts))
    /\ Len(econ.selectedRetail) = Len(ResolvedIds(RetailIds(tier), retailProducts))
    /\ Len(econ.selectedBulk) > 0 =>
         RMul(econ.servingsPerProduct, Q(Len(ResolvedIds(BulkIds(tier), bulkProducts))))
           = Result.servingsPerMonth
    /\ Len(econ.selectedRetail) > 0 =>
         RMul(econ.retailUnitsPerProduct, Q(Len(ResolvedIds(RetailIds(tier), retailProducts))))
           = tier.retailUnitsPerMonth

C14_Witness ==
  /\ Returned /\ BulkIds(tier) = <<"ev1", "zzz">> /\ RetailIds(tier) = <<"dkp", "nope">>
  /\ tier.drinksPerDay = Q(10) /\ tier.retailUnitsPerMonth = Q(10)
  /\ Len(econ.selectedBulk) = 1 /\ Len(econ.selectedRetail) = 1
  /\ Result.bulkRev = Dec(13333, 100) /\ Result.retailRev = Q(120)

N == Len(econ.selectedBulk)

RECURSIVE ImpliedServings(_)
ImpliedServings(k) ==
  IF k = 0 THEN Q(0)
  ELSE RAdd(ImpliedServings(k - 1), RMul(Result.bulkBreakdown[k].bags, econ.selectedBulk[k].servings))

\* |a - b| <= t
Within(a, b, t) == ~RGt(RSub(a, b), t) /\ ~RGt(RSub(b, a), t)

\* C15 as stated: with N > 0 resolved bulk products each is allocated
\* totalServingsPerMonth / N servings, and the returned bag counts times the
\* servings per bag, summed over the breakdown, give totalServingsPerMonth within
\* 0.01 per product.
C15_ImpliedServingsWithinCent ==
  (Returned /\ N > 0) =>
    /\ econ.servingsPerProduct = RDiv(econ.totalServingsPerMonth, Q(N))
    /\ Within(ImpliedServings(N), econ.totalServingsPerMonth, Dec(N, 100))

\* C15, amended: each of the N > 0 resolved products is allocated
\* totalServingsPerMonth / N servings; for a product with servings per bag > 0
\* the unrounded bag count times the servings per bag is exactly that share, and
\* the returned bag count, rounded to 2 decimals, implies the share within 0.005
\* * servings per bag; a product with 0 servings per bag gets 0 bags.
C15_ImpliedServingsWithinHalfCentOfBag ==
  (Returned /\ N > 0) =>
    /\ econ.servingsPerProduct = RDiv(econ.totalServingsPerMonth, Q(N))
    /\ \A k \in 1..N :
         /\ IsRoundOf(RMul(Result.bulkBreakdown[k].bags, Q(100)), RMul(econ.bulk[k].bags, Q(100)))
         /\ IF RGt(econ.selectedBulk[k].servings, Q(0))
            THEN /\ RMul(econ.bulk[k].bags, econ.selectedBulk[k].servings) = econ.servingsPerProduct
                 /\ Within(RMul(Result.bulkBreakdown[k].bags, econ.selectedBulk[k].servings),
                           econ.servingsPerProduct,
                           RDiv(econ.selectedBulk[k].servings, Q(200)))
            ELSE Result.bulkBreakdown[k].bags = Q(0)

C15_Witness ==
  /\ Returned /\ N = 1 /\ BulkIds(tier) = <<"ev1">> /\ tier.drinksPerDay = Q(10)
  /\ Result.bulkBreakdown[1].bags = Dec(167, 100)
  /\ ImpliedServings(1) = Dec(3006, 10) /\ econ.totalServingsPerMonth = Q(300)

\* the bags of product p for the share spp: spp / servings per bag, and 0 for a
\* product of 0 servings per bag
UnitsNeeded(p, spp) == IF p.servings = Q(0) THEN Q(0) ELSE RDiv(spp, p.servings)

\* what a unit of product p brings: its price to the partner, or that price less its cost
PerUnit(p, what) ==
  IF what = "revenue" THEN (IF "wholesale" \in DOMAIN p THEN p.wholesale ELSE p.wholesalePrice)
  ELSE RSub(IF "wholesale" \in DOMAIN p THEN p.wholesale ELSE p.wholesalePrice, p.cogs)

RECURSIVE BulkSum(_, _)
BulkSum(k, what) ==
  IF k = 0 THEN Q(0)
  ELSE RAdd(BulkSum(k - 1, what),
            RMul(UnitsNeeded(econ.selectedBulk[k], econ.servingsPerProduct),
                 PerUnit(econ.selectedBulk[k], what)))

\* C16: for a tier with resolved bulk products, bulkRev is the sum over them of
\* units * wholesale, rounded to 2 decimals, and bulkProfit the sum of units *
\* (wholesale - cogs), rounded to 2 decimals, with units = servingsPerProduct /
\* servings per bag and 0 for a product of 0 servings per bag. 10 drinks a day *
\* 1 * 30 days on the 180-servings product (wholesale 80, cogs 12.93) gives
\* servingsPerMonth 300, bulkRev 133.33 and bulkProfit 111.78.
C16_BulkRevenueAndProfit ==
  Returned =>
    /\ Result = calcTierEconomics(tier, bulkProducts, retailProducts)
    /\ N > 0 =>
         /\ IsRoundOf(RMul(Result.bulkRev, Q(100)),
                      RMul(BulkSum(N, "revenue"), Q(100)))
         /\ IsRoundOf(RMul(Result.bulkProfit, Q(100)),
                      RMul(BulkSum(N, "profit"), Q(100)))
    /\ (/\ BulkIds(tier) = <<"ev1">>
        /\ << tier.drinksPerDay, tier.tspPerDrink, tier.daysPerMonth >> = << Q(10), Q(1), Q(30) >>) =>
         /\ Result.servingsPerMonth = Q(300)
         /\ Result.bulkRev = Dec(13333, 100)
         /\ Result.bulkProfit = Dec(11178, 100)

C16_Witness ==
  /\ Returned /\ BulkIds(tier) = <<"ev5", "dk5">> /\ tier.drinksPerDay = Q(60)
  /\ bulkProducts[2].servings = Q(0)
  /\ econ.bulk[1].bags = Q(0)
  /\ Result.bulkRev = Dec(90841, 100) /\ Result.bulkProfit = Dec(46262, 100)

M == Len(econ.selectedRetail)

RECURSIVE RetailSum(_, _)
RetailSum(k, what) ==
  IF k = 0 THEN Q(0)
  ELSE RAdd(RetailSum(k - 1, what),
            RMul(RDiv(tier.retailUnitsPerMonth, Q(M)), PerUnit(econ.selectedRetail[k], what)))

\* the catalog with every consumer price replaced
Repriced(products, price) == [i \in 1..Len(products) |-> [products[i] EXCEPT !.retailPrice = price]]

\* C17: with M > 0 resolved retail products each receives retailUnitsPerMonth / M
\* units, retailRev is the sum of those units * wholesalePrice and retailProfit
\* the sum of those units * (wholesalePrice - cogs); with M = 0 both are 0. The
\* record returned does not depend on retailPrice.
C17_RetailShareAndSums ==
  Returned =>
    /\ IF M > 0
       THEN /\ econ.retailUnitsPerProduct = RDiv(tier.retailUnitsPerMonth, Q(M))
            /\ Result.retailRev = RetailSum(M, "revenue")
            /\ Result.retailProfit = RetailSum(M, "profit")
       ELSE Result.retailRev = Q(0) /\ Result.retailProfit = Q(0)
    /\ \A price \in { Q(0), Q(99) } :
         Result = calcTierEconomics(tier, bulkProducts, Repriced(retailProducts, price))

C17_Witness ==
  /\ Returned /\ M = 2 /\ tier.retailUnitsPerMonth = Q(25)
  /\ retailProducts[1].retailPrice = Q(30)
  /\ Result.retailRev = Q(300) /\ Result.retailProfit = Q(150)

\* the months projectScenario returns for 30 partners, all of the first cohort,
\* with no churn, no growth and every partner stocking retail, on this tier alone
ThirtyPartners == ScenarioOf(30, 0, <<100, 0, 0>>, 0, 100)
OnThisTier == projectScenario(ThirtyPartners, << tier >>, bulkProducts, retailProducts)

\* C18: in the record returned, bulkRev, bulkProfit, totalRev and totalProfit are
\* rounded to 2 decimals, totalRev and totalProfit being the rounding of the
\* unrounded bulk + retail sums; retailRev and retailProfit are returned
\* unrounded; projectScenario multiplies the cohort counts by the rounded bulk
\* figures and the unrounded retail figures.
C18_RoundedBulkUnroundedRetail ==
  Returned =>
    /\ IsRoundOf(RMul(Result.bulkRev, Q(100)), RMul(econ.bulkRev, Q(100)))
    /\ IsRoundOf(RMul(Result.bulkProfit, Q(100)), RMul(econ.bulkProfit, Q(100)))
    /\ IsRoundOf(RMul(Result.totalRev, Q(100)), RMul(RAdd(econ.bulkRev, econ.retailRev), Q(100)))
    /\ IsRoundOf(RMul(Result.totalProfit, Q(100)), RMul(RAdd(econ.bulkProfit, econ.retailProfit), Q(100)))
    /\ Result.retailRev = econ.retailRev
    /\ Result.retailProfit = econ.retailProfit
    /\ \A run \in { OnThisTier } :
         /\ run[1].bulkRevenue = MathRound(RMul(Q(30), Result.bulkRev))
         /\ run[1].bulkProfit = MathRound(RMul(Q(30), Result.bulkProfit))
         /\ run[1].retailRevenue = MathRound(RMul(Q(30), Result.retailRev))
         /\ run[1].retailProfit = MathRound(RMul(Q(30), Result.retailProfit))
         /\ run[12].cumulativeRev = MathRound(RMul(Q(360), RAdd(Result.bulkRev, Result.retailRev)))
         /\ run[12].cumulativeProfit = MathRound(RMul(Q(360), RAdd(Result.bulkProfit, Result.retailProfit)))

C18_Witness ==
  /\ Returned /\ BulkIds(tier) = <<"ev1">> /\ tier.drinksPerDay = Q(10)
  /\ econ.bulkRev = Dec(400, 3) /\ Result.bulkRev = Dec(13333, 100)
  /\ Result.retailProfit = Dec(1199, 8)
  /\ OnThisTier[12].cumulativeRev = Q(155999)

\* ----------------------------------------------- claims on degenerate inputs

EconNumbers == { "servingsPerMonth", "bulkRev", "bulkProfit", "retailRev", "retailProfit", "totalRev", "totalProfit" }
MonthNumbers ==
  { "totalActive", "small", "medium", "large", "bulkRevenue", "retailRevenue", "totalRevenue",
    "bulkProfit", "retailProfit", "totalProfit", "marginPct", "cumulativeRev", "cumulativeProfit" }

DefinedEconomics(e) ==
  /\ \A f \in EconNumbers : IsNum(e[f])
  /\ \A k \in 1..Len(e.bulkBreakdown) : IsNum(e.bulkBreakdown[k].bags) /\ IsNum(e.bulkBreakdown[k].rev)

AllDefined ==
  /\ \A id \in DOMAIN tierEcon : DefinedEconomics(tierEcon[id])
  /\ \A k \in 1..Len(Months) : \A f \in MonthNumbers : IsNum(Months[k][f])

\* C19: on zero servings per bag, empty or unresolved selections, an empty tier
\* list, percentages that do not sum to 100 or lie outside 0..100,
\* calcTierEconomics and projectScenario run to their return and every numeric
\* field of what they return is a number: no division by zero is made.
C19_NeverFails == []AllDefined /\ <>[](pc = "done" /\ Len(Months) = 12)

C19_Witness ==
  /\ pc = "done" /\ Len(tiers) = 3 /\ tiers[1].bulkProductIds = <<"zzz">>
  /\ bulkProducts[2].servings = Q(0) /\ retailProducts = << >>
  /\ scenario.pctMedium = Q(-20) /\ scenario.monthlyChurnPct = Q(200)
  /\ tierEcon["medium"].bulkRev = Q(0) /\ tierEcon["large"].bulkRev.n > 0
  /\ Months[1].large = Q(0)

\* ------------------------------------------------- claims on repeated calls

\* C20: two calls of projectScenario with identical scenario, tiers and catalogs
\* return identical 12-month sequences, whatever calls were made in between: a
\* call returns what every earlier call with its arguments returned, which is
\* the value of the function on these arguments; on entry totalActive is
\* startingPartners and cumulativeRev, cumulativeProfit are 0, months is empty.
C20_SameArgumentsSameMonths ==
  /\ pc = "done" =>
       /\ \A i \in 1..Len(history) : history[i].arguments = args => history[i].months = Months
       /\ Months = projectScenario(scenario, tiers, bulkProducts, retailProducts)
  /\ (pc = "loop" /\ m = 1) =>
       /\ loop.totalActive = scenario.startingPartners
       /\ loop.cumulativeRev = Q(0) /\ loop.cumulativeProfit = Q(0)
       /\ loop.months = << >>

C20_Witness ==
  /\ pc = "done" /\ Len(history) = 2
  /\ history[1].arguments = args /\ history[2].arguments # args
  /\ history[1].months = Months /\ history[2].months # Months
  /\ Months[12].cumulativeRev.n > 0

\* ------------------------------------------------ claims on the dashboard

\* C21: calcBulkMarginPct returns exactly 0 for a product whose wholesale price
\* is 0, whatever its cogs; for a positive wholesale price it returns
\* (wholesale - cogs) / wholesale, which is negative when cogs exceeds wholesale.
C21_MarginPctGuarded ==
  \A i \in 1..Len(bulkProducts) :
    \A p \in { bulkProducts[i] } : \A r \in { calcBulkMarginPct(p) } :
      /\ p.wholesale = Q(0) => r = Q(0)
      /\ RGt(p.wholesale, Q(0)) =>
           /\ IsNum(r)
           /\ RMul(r, p.wholesale) = RSub(p.wholesale, p.cogs)
           /\ RGt(p.cogs, p.wholesale) => RGt(Q(0), r)

\* a product priced 0 with a cost of 90, next to one whose cost exceeds its price
C21_Witness ==
  /\ bulkProducts[1].wholesale = Q(0)
  /\ bulkProducts[1].cogs = Q(90)
  /\ RGt(bulkProducts[2].cogs, bulkProducts[2].wholesale)
  /\ calcBulkMarginPct(bulkProducts[2]) = Norm(-1, 3)

\* C22: from the three default scenarios, whatever addScenario and
\* removeScenario calls the interface offers, the number of scenarios stays
\* within 1..5: addScenario at 5 scenarios changes nothing, and Remove is not
\* on screen at 1 scenario.
C22_ScenarioCountBounded ==
  /\ Len(scenarios) \in 1..MaxScenarios
  /\ Len(scenarios) = MaxScenarios => addScenario(rendered.scenarios, scenarios) = scenarios
  /\ Len(scenarios) = 1 => Len(rendered.scenarios) = 1

\* five scenarios, two of them added, and a further call that left them five
C22_Witness ==
  /\ Len(scenarios) = MaxScenarios
  /\ scenarios[5].name = "Scenario 5"
  /\ ops = 3

Ids(coll) == [i \in 1..Len(coll) |-> coll[i].id]
Names(s) == [i \in 1..Len(s) |-> s[i].name]

\* the names after a step that renames no scenario: the same, one more at the
\* end, or one removed
NamesKept(before, after) ==
  \/ after = before
  \/ Len(after) = Len(before) + 1 /\ SubSeq(after, 1, Len(before)) = before
  \/ \E j \in 1..Len(before) : after = removeScenario(before, j - 1)

\* C23 as stated: no edit operation changes the id of an existing product or
\* tier, or the name of an existing scenario.
C23_IdentitiesImmutable ==
  [][ /\ Ids(bulkProducts)' = Ids(bulkProducts)
      /\ Ids(retailProducts)' = Ids(retailProducts)
      /\ Ids(tiers)' = Ids(tiers)
      /\ NamesKept(Names(scenarios), Names(scenarios)') ]_vars

\* the step is a call updateScenario(j - 1, "name", val): the scenario at that
\* position gets the name and keeps its other fields, the others are unchanged
Renamed(before, after) ==
  \E j \in 1..Len(before) :
    /\ Len(after) = Len(before)
    /\ after = updateScenario(before, j - 1, "name", after[j].name)

\* C23, amended: no edit operation changes the id of an existing product or
\* tier. The name of an existing scenario changes only by updateScenario(idx,
\* "name", val), the call of the name input of the scenario's card (line 796),
\* which changes the name of the scenario at idx and nothing else.
C23_IdsImmutableNamesEditable ==
  [][ /\ Ids(bulkProducts)' = Ids(bulkProducts)
      /\ Ids(retailProducts)' = Ids(retailProducts)
      /\ Ids(tiers)' = Ids(tiers)
      /\ NamesKept(Names(scenarios), Names(scenarios)') \/ Renamed(scenarios, scenarios') ]_vars

\* the first default scenario, renamed to the name of the second, after a
\* product and a tier were edited
C23_Witness ==
  /\ Len(scenarios) = 3
  /\ scenarios[1] = Put(DEFAULT_SCENARIOS[1], "name", "Aggressive")
  /\ scenarios[2].name = "Aggressive"
  /\ bulkProducts # DEFAULT_BULK_PRODUCTS
  /\ tiers # DEFAULT_TIERS

\* after is before with the field of the element at position idx (from 0) set
\* to val: same length, same order, the other elements and the other fields of
\* that element as they were
Framed(before, after, idx, field, val) ==
  /\ Len(after) = Len(before)
  /\ \A i \in 1..Len(before) :
       IF i - 1 = idx
       THEN /\ DOMAIN after[i] = DOMAIN before[i] \cup { field }
            /\ after[i][field] = val
            /\ \A k \in DOMAIN before[i] \ { field } : after[i][k] = before[i][k]
       ELSE after[i] = before[i]

Edited(before, after, edits) ==
  \E e \in edits : e[1] \in 0..(Len(before) - 1) /\ Framed(before, after, e[1], e[2], e[3])

\* a position outside the collection changes nothing
OutsideIsNoOp(coll) ==
  \A idx \in { -1, Len(coll), Len(coll) + 1 } : UpdateAt(coll, idx, "cogs", Q(1)) = coll

\* C24: updateBulk, updateRetail, updateTier and updateScenario (idx, field, val)
\* replace only the given field of the element at idx of their own collection:
\* its length and order, its other elements, the other fields of that element
\* and the three other collections are unchanged; an idx outside the collection
\* changes nothing.
C24_UpdatesAreFramed ==
  [][ /\ UpdateBulk =>
           /\ Edited(bulkProducts, bulkProducts', BulkEdits)
           /\ UNCHANGED << retailProducts, tiers, scenarios >>
      /\ UpdateRetail =>
           /\ Edited(retailProducts, retailProducts', RetailEdits)
           /\ UNCHANGED << bulkProducts, tiers, scenarios >>
      /\ UpdateTier =>
           /\ Edited(tiers, tiers', TierEdits)
           /\ UNCHANGED << bulkProducts, retailProducts, scenarios >>
      /\ UpdateScenario(MaxOps, ScenarioEdits) =>
           /\ Edited(scenarios, scenarios', ScenarioEdits)
           /\ UNCHANGED << bulkProducts, retailProducts, tiers >>
      /\ OutsideIsNoOp(bulkProducts) /\ OutsideIsNoOp(retailProducts)
      /\ OutsideIsNoOp(tiers) /\ OutsideIsNoOp(scenarios) ]_vars

\* one edit of each of three collections: the price of the first bulk product,
\* the cost of the second retail product, the drinks of the second tier
C24_Witness ==
  /\ bulkProducts = UpdateAt(DEFAULT_BULK_PRODUCTS, 0, "wholesale", Q(0))
  /\ bulkProducts # DEFAULT_BULK_PRODUCTS
  /\ retailProducts[2].cogs = Q(20)
  /\ tiers[2].drinksPerDay = Q(0)
  /\ scenarios = DEFAULT_SCENARIOS

NoDuplicates(values) ==
  \A i, j \in 1..Len(values) : values[i] = values[j] => i = j

Members(values) == { values[i] : i \in 1..Len(values) }

\* lines 685, 689: the ids offered by the checkboxes of a selection
Options(field) ==
  IF field = "bulkProductIds" THEN Members(Ids(bulkProducts)) ELSE Members(Ids(retailProducts))

\* C26: the bulkProductIds of a tier, non-empty at the start, is non-empty after
\* any toggles (toggling the only selected id changes nothing), holds no id
\* twice, and toggling an id twice gives back the same set of ids; the same
\* holds of retailProductIds.
C26_SelectionNeverEmpty ==
  \A t \in 1..Len(tiers) : \A field \in { "bulkProductIds", "retailProductIds" } :
    \A values \in { tiers[t][field] } :
      /\ values # << >>
      /\ NoDuplicates(values)
      /\ \A id \in Options(field) :
           /\ Members(toggle(toggle(values, id), id)) = Members(values)
           /\ values = << id >> => toggle(values, id) = values
           /\ Len(toggle(values, id)) >= 1

\* the first tier's bulk selection was changed from ev1 to ev5, and the third
\* tier's retail selection is down to one id
C26_Witness ==
  /\ tiers[1].bulkProductIds = << "ev5" >>
  /\ Len(tiers[3].retailProductIds) = 1

\* C27: the number of scenarios stays within 1..5 also when two addScenario
\* calls, or two removeScenario calls, are made from the same render, so that
\* both read the scenarios of that render before either update is applied.
C27_CountBoundedFromOneRender ==
  Len(scenarios) >= 1 /\ Len(scenarios) <= MaxScenarios

\* -------------------------------- claims on the projections and the chart

\* C25: the chart has 12 records, and for every scenario and every metric the
\* record of month i holds that scenario's own value of month i under the key
\* name + suffix (_rev, _profit, _partners, _margin, _cumRev), so that a record
\* has one field of its own for each scenario and metric, in every state reached
\* by adding, removing and editing scenarios.
C25_ChartHoldsEachScenario ==
  Projectable =>
    \A projs \in { allProjections } : \A chart \in { ChartDataOf(projs) } :
      /\ Len(chart) = 12
      /\ \A i \in 1..12 :
           /\ Cardinality(DOMAIN chart[i]) = 2 + Len(Suffixes) * Len(scenarios)
           /\ \A k \in 1..Len(scenarios) : \A j \in 1..Len(Suffixes) :
                chart[i][scenarios[k].name \o Suffixes[j]] = Metric(projs[k].data[i], Suffixes[j])

\* C28: the projection of a scenario depends on that scenario, the tiers and
\* the catalogs only: whatever the other scenarios of the list are, after any
\* additions, removals and edits, its 12 months are those of the scenario
\* projected on its own; allProjections has one entry for each scenario, in the
\* order of the scenarios, each with 12 months.
C28_ProjectionOfItsScenarioOnly ==
  Projectable =>
    \A projs \in { allProjections } :
      /\ Len(projs) = Len(scenarios)
      /\ \A k \in 1..Len(scenarios) :
           /\ projs[k].scenario = scenarios[k]
           /\ Len(projs[k].data) = 12
           /\ projs[k].data = AllProjectionsOf(<< scenarios[k] >>)[1].data

\* four scenarios that differ: one was added and its churn set to 0, and the
\* first was edited
C28_Witness ==
  /\ Projectable
  /\ Len(scenarios) = 4
  /\ scenarios[4].name = "Scenario 4"
  /\ scenarios[1].newPartnersPerMonth = Q(0)
  /\ allProjections[1].data # allProjections[2].data
  /\ allProjections[4].data # allProjections[3].data

\* ------------------------------------------- claims on the partner count

AtMost(x, y) == IsNum(x) /\ IsNum(y) /\ ~RGt(x, y)

\* C29: with startingPartners >= 0, newPartnersPerMonth >= 0 and a churn within
\* 0..100%, the partner count of every month m, carried and reported, is at
\* least 0 and at most startingPartners + (m - 1) * newPartnersPerMonth, and from
\* month 2 on it is at least newPartnersPerMonth; with prices and percentages
\* that are not negative, the reported cumulativeRev never goes down from one
\* month to the next.
C29_PartnerCountBounded ==
  (/\ Iterated
   /\ AtMost(Q(0), scenario.startingPartners) /\ AtMost(Q(0), scenario.newPartnersPerMonth)
   /\ AtMost(Q(0), scenario.monthlyChurnPct) /\ AtMost(scenario.monthlyChurnPct, Q(100))) =>
    \A k \in { Len(Months) } :
      \A cap \in { RAdd(scenario.startingPartners, RMul(Q(k - 1), scenario.newPartnersPerMonth)) } :
        /\ Latest.month = k
        /\ AtMost(Q(0), loop.totalActive) /\ AtMost(loop.totalActive, cap)
        /\ AtMost(Q(0), Latest.totalActive) /\ AtMost(Latest.totalActive, cap)
        /\ AtMost(Q(0), Latest.cumulativeRev)
        /\ k >= 2 =>
             /\ AtMost(scenario.newPartnersPerMonth, loop.totalActive)
             /\ AtMost(scenario.newPartnersPerMonth, Latest.totalActive)
             /\ AtMost(Months[k - 1].cumulativeRev, Latest.cumulativeRev)

\* month 12 of a scenario that loses half its partners a month: the count is
\* strictly between the new partners and the bound, and the revenue has grown
C29_Witness ==
  /\ Len(Months) = 12
  /\ scenario.monthlyChurnPct = Q(50)
  /\ scenario.startingPartners = Q(1) /\ scenario.newPartnersPerMonth = Q(2)
  /\ RGt(loop.totalActive, Q(2)) /\ RGt(Q(23), loop.totalActive)
  /\ RGt(Latest.cumulativeRev, Months[11].cumulativeRev)

====
